---------------------------- MODULE Spec2Model ----------------------------
(***************************************************************************)
(* Frame lifecycle and GPU/CPU synchronisation of Vulcor.                  *)
(*                                                                         *)
(* The CPU side is Vulcor::render (src/src/main.rs) driving RenderSync     *)
(* (src/src/synchronous.rs); it is split into one action per Vulkan call,  *)
(* because the fence waits block while the GPU and the presentation engine *)
(* run.  The GPU side (queue execution, presentation) is the environment:  *)
(* it follows the Vulkan rules for fences and binary semaphores.           *)
(*                                                                         *)
(* A fence handle is the index of the in-flight slot that owns it          *)
(* (RenderSync.in_flight[s] is fence s); NullFence is vk::Fence::null().   *)
(***************************************************************************)
EXTENDS Integers, FiniteSets, Sequences, TLC

\* Bounds of the model.
MaxImages == 3          \* swapchain image counts explored: 1..MaxImages
MaxFrames == 3          \* render() calls and CloseRequested events explored, together
MaxImageCount == 4      \* largest min_image_count / max_image_count a surface reports
MaxListLen == 2         \* longest format / present-mode list a surface reports
MaxDevices == 2         \* physical devices enumerated
MaxFaults == 2          \* Vulkan calls that report an error, in total

\* synchronous.rs:5
MAX_FRAMES_IN_FLIGHT == 2

\* std::u32::MAX, the "match the window" width of current_extent (swapchain.rs:111).
\* TLC's integers end at 2^31 - 1, which stands for 2^32 - 1 here: the value is
\* only compared, as the largest width there is, never computed with.
U32Max == 2147483647

\* vk::Fence::null(), synchronous.rs:40
NullFence == -1

Slots == 0 .. (MAX_FRAMES_IN_FLIGHT - 1)

\* Results of the Vulkan calls render() makes, as ash reports them.
\* acquire_next_image / queue_present: Ok(false), Ok(true), Err(OUT_OF_DATE), Err(other)
SwapchainResults == {"success", "suboptimal", "out_of_date", "error"}
\* wait_for_fences, reset_fences, queue_submit: Ok or Err
CallResults == {"success", "error"}

VARIABLES
    \* RenderSync
    frame,              \* RenderSync.frame: the in-flight cursor
    images_in_flight,   \* RenderSync.images_in_flight: image index -> fence
    \* Vulcor
    num_images,         \* swapchain.images.len() == command_buffers.len()
    run,                \* Vulcor.run
    \* device objects
    fence_signaled,     \* state of in_flight[s]
    image_available,    \* state of image_available[s]: TRUE = signaled
    render_completed,   \* state of render_completed[s]: TRUE = signaled
    gpu_queue,          \* submissions on the graphics queue not yet complete
    present_queue,      \* present requests not yet executed
    \* render() in progress
    pc,                 \* position inside render(); "idle" between calls
    image_index,        \* local image_index
    in_flight,          \* local in_flight (main.rs:408)
    \* observations of the current / last render() call
    calls,              \* render() calls started so far
    faults,             \* Vulkan calls that reported an error so far
    completed,          \* render() calls that returned Ok
    entry_frame,        \* cursor when the call started
    acquire_result,     \* what acquire_next_image reported (Ok, or the Err)
    waited_fence,       \* fence the step-3 wait was performed on
    waited_since,       \* slot -> step-1 wait succeeded since its last submission
    fence_error,        \* the fence call that returned Err in this call, or "none"
    fresh,              \* slots whose fence has not been reset since creation
    submit_result,      \* what queue_submit reported
    present_result,     \* what queue_present reported
    result,             \* what render() returned: "none", "ok", "err"
    last_presented,     \* last present request the presentation engine executed
    \* window and teardown
    minimized,          \* the window's inner size has zero area
    closes,             \* CloseRequested events handled so far
    destroyed,          \* calls Vulcor::cleanup has made, in order
    \* SwapchainData::create_swapchain
    capabilities,       \* details.capabilities: vk::SurfaceCapabilitiesKHR
    formats,            \* details.formats: Vec<vk::SurfaceFormatKHR>
    present_modes,      \* details.present_modes: Vec<vk::PresentModeKHR>
    queue_family,       \* QueueFamilyIndices of the physical device
    inner_size,         \* window.inner_size()
    create_info,        \* what create_swapchain asked the device for, and how it ended
    \* Devices::select_physical_device
    enumerated,         \* devices: what enumerate_physical_devices returned
    scored,             \* devices the loop has gone through
    candidates,         \* candidates: BTreeMap<i32, vk::PhysicalDevice>
    physical            \* what select_physical_device returned

sync_vars == <<frame, images_in_flight>>
device_vars == <<fence_signaled, image_available, render_completed, gpu_queue,
                 present_queue, last_presented>>
local_vars == <<pc, image_index, in_flight>>
obs_vars == <<calls, faults, completed, entry_frame, acquire_result, waited_fence,
              waited_since, fence_error, fresh, submit_result, present_result, result>>
app_vars == <<minimized, closes, destroyed>>
swap_vars == <<capabilities, formats, present_modes, queue_family, inner_size, create_info>>
hw_vars == <<enumerated, scored, candidates, physical>>
ext_vars == <<app_vars, swap_vars, hw_vars>>
vars == <<sync_vars, num_images, run, device_vars, local_vars, obs_vars, ext_vars>>

Images == 0 .. (num_images - 1)

\* last_presented before anything was presented
NoPresent == [rendered |-> TRUE, render_done |-> TRUE]

----------------------------------------------------------------------------
\* RenderSync

\* RenderSync::get_in_flight_fence
get_in_flight_fence == frame

\* RenderSync::increment_frame
increment_frame_skip(f) == (f + 2) % MAX_FRAMES_IN_FLIGHT
increment_frame_nowrap(f) == f + 1
increment_frame(f) == (f + 1) % MAX_FRAMES_IN_FLIGHT

\* RenderSync::update_image_in_flight
update_image_in_flight_all(index) ==
    [i \in DOMAIN images_in_flight |-> get_in_flight_fence]
update_image_in_flight(index) ==
    [images_in_flight EXCEPT ![index] = get_in_flight_fence]

\* RenderSync::new: FenceCreateFlags::SIGNALED (synchronous.rs:32-33)
FenceCreatedUnsignaled == FALSE
FenceCreatedSignaled == TRUE

\* RenderSync::new: F pre-signaled fences, one null table entry per image, cursor 0
InitFrame ==
    /\ num_images \in 1 .. MaxImages
    /\ frame = 0
    /\ images_in_flight = [i \in 0 .. (num_images - 1) |-> NullFence]
    /\ run = TRUE
    /\ fence_signaled = [s \in Slots |-> FenceCreatedSignaled]
    /\ image_available = [s \in Slots |-> FALSE]
    /\ render_completed = [s \in Slots |-> FALSE]
    /\ gpu_queue = {}
    /\ present_queue = {}
    /\ last_presented = NoPresent
    /\ pc = "idle"
    /\ image_index = 0
    /\ in_flight = NullFence
    /\ calls = 0
    /\ faults = 0
    /\ completed = 0
    /\ entry_frame = 0
    /\ acquire_result = "none"
    /\ waited_fence = NullFence
    /\ waited_since = [s \in Slots |-> FALSE]
    /\ fence_error = "none"
    /\ fresh = Slots
    /\ submit_result = "none"
    /\ present_result = "none"
    /\ result = "none"

\* Vulcor::new: a visible window, nothing torn down
InitApp ==
    /\ minimized = FALSE
    /\ closes = 0
    /\ destroyed = <<>>

Extent2D(w, h) == [width |-> w, height |-> h]

\* Surface capabilities a driver can report: max_image_count is 0 (no limit) or
\* at least min_image_count, and min_image_extent <= max_image_extent
SurfaceCapabilities ==
    {c \in [min_image_count : 1 .. MaxImageCount,
            max_image_count : 0 .. MaxImageCount,
            current_extent : {Extent2D(U32Max, U32Max), Extent2D(800, 600), Extent2D(1, 1)},
            min_image_extent : {Extent2D(1, 1), Extent2D(800, 600)},
            max_image_extent : {Extent2D(800, 600), Extent2D(4096, 4096)}] :
        c.max_image_count = 0 \/ c.max_image_count >= c.min_image_count}

WindowSizes == {Extent2D(0, 0), Extent2D(800, 600), Extent2D(5000, 5000)}

\* a panic inside create_swapchain
Panic == -1

\* u32::clamp(self, min, max): asserts min <= max
clamp(x, min, max) ==
    IF min > max THEN Panic
    ELSE IF x < min THEN min
    ELSE IF x > max THEN max
    ELSE x

\* SwapchainData::select_swapchain_extent (swapchain.rs:110-119)
select_swapchain_extent(support, size) ==
    IF support.current_extent.width # U32Max
    THEN support.current_extent
    ELSE LET min == support.min_image_extent
             max == support.max_image_extent
         IN  Extent2D(clamp(size.width, max.width, min.width),
                      clamp(size.height, max.height, min.height))

Max(a, b) == IF a >= b THEN a ELSE b
Min(a, b) == IF a <= b THEN a ELSE b

\* let image_count = { ... } (swapchain.rs:69-73)
image_count_no_increment(support) == support.min_image_count
image_count(support) ==
    LET max == support.max_image_count
        preferred == support.min_image_count + 1
    IN  IF max > 0 THEN Max(preferred, max) ELSE preferred

SurfaceFormat(f, c) == [format |-> f, color_space |-> c]

\* vk::SurfaceFormatKHR values a surface can list
SurfaceFormats ==
    {SurfaceFormat("B8G8R8A8_SRGB", "SRGB_NONLINEAR"),
     SurfaceFormat("R8G8B8A8_UNORM", "SRGB_NONLINEAR"),
     SurfaceFormat("B8G8R8A8_UNORM", "SRGB_NONLINEAR"),
     SurfaceFormat("B8G8R8A8_SRGB", "EXTENDED_SRGB_LINEAR")}

PresentModes == {"FIFO", "MAILBOX", "IMMEDIATE"}

\* the lists of at most n elements of S
ListsUpTo(S, n) == UNION {[1 .. k -> S] : k \in 0 .. n}

\* Iterator::find: the first element of list that is one of wanted, if any
Find(list, wanted) ==
    IF \E i \in DOMAIN list : list[i] \in wanted
    THEN <<list[CHOOSE i \in DOMAIN list :
                  list[i] \in wanted /\ \A j \in 1 .. (i - 1) : list[j] \notin wanted]>>
    ELSE <<>>

\* SwapchainData::select_swapchain_formats (swapchain.rs:98-102): `formats[0]`
\* is evaluated on every call and panics on an empty list
select_first_format(list) == IF list = <<>> THEN Panic ELSE list[1]
select_swapchain_formats(list) ==
    LET found == Find(list, {f \in SurfaceFormats :
                               f.format = "B8G8R8A8_SRGB"
                               /\ f.color_space = "SRGB_NONLINEAR"})
    IN  IF list = <<>> THEN Panic
        ELSE IF found # <<>> THEN found[1]
        ELSE list[1]

\* SwapchainData::select_swapchain_present_mode (swapchain.rs:104-108)
select_fifo(list) == "FIFO"
select_swapchain_present_mode(list) ==
    LET found == Find(list, {p \in PresentModes : p = "MAILBOX"})
    IN  IF found # <<>> THEN found[1] ELSE "FIFO"

\* image_sharing_mode and queue_family_indices (swapchain.rs:75-77)
sharing_exclusive(family) == [image_sharing_mode |-> "EXCLUSIVE", queue_family_indices |-> <<>>]
sharing(family) ==
    LET use_concurrent_mode == family.graphics # family.presentation
    IN  [image_sharing_mode |-> IF use_concurrent_mode THEN "CONCURRENT" ELSE "EXCLUSIVE",
         queue_family_indices |-> IF use_concurrent_mode
                                  THEN <<family.graphics, family.presentation>>
                                  ELSE <<>>]

NoCreateInfo ==
    [status |-> "none", image_count |-> 0, extent |-> Extent2D(0, 0),
     format |-> SurfaceFormat("UNDEFINED", "SRGB_NONLINEAR"), present_mode |-> "FIFO",
     image_sharing_mode |-> "EXCLUSIVE", queue_family_indices |-> <<>>]

\* SwapchainData::create_swapchain (swapchain.rs:62-96): format, present mode,
\* extent, image count and sharing mode, then vkCreateSwapchainKHR, whose error
\* is returned
create_swapchain_result(support, list, modes, family, size, r) ==
    LET extent == select_swapchain_extent(support, size)
    IN  IF list = <<>> \/ extent.width = Panic \/ extent.height = Panic
        THEN [NoCreateInfo EXCEPT !.status = "panic"]
        ELSE [status |-> IF r = "success" THEN "created" ELSE "error",
              image_count |-> image_count(support),
              extent |-> extent,
              format |-> select_swapchain_formats(list),
              present_mode |-> select_swapchain_present_mode(modes),
              image_sharing_mode |-> sharing(family).image_sharing_mode,
              queue_family_indices |-> sharing(family).queue_family_indices]

\* a surface with a fixed extent
FixedExtentCapabilities ==
    [min_image_count |-> 2, max_image_count |-> 0,
     current_extent |-> Extent2D(800, 600),
     min_image_extent |-> Extent2D(800, 600),
     max_image_extent |-> Extent2D(800, 600)]

\* a device with one queue family and the formats and modes every driver lists
InitDevice ==
    /\ formats = <<SurfaceFormat("B8G8R8A8_UNORM", "SRGB_NONLINEAR")>>
    /\ present_modes = <<"FIFO">>
    /\ queue_family = [graphics |-> 0, presentation |-> 0]

\* the swapchain the frame loop runs on: a surface with a fixed extent
InitSwapchain ==
    /\ capabilities = FixedExtentCapabilities
    /\ InitDevice
    /\ inner_size = Extent2D(800, 600)
    /\ create_info = create_swapchain_result(capabilities, formats, present_modes,
                                             queue_family, inner_size, "success")

\* what a physical device reports to device_suitability_score
PhysicalDevices ==
    {d \in [queue_family : BOOLEAN,        \* QueueFamilyIndices::new is Ok
            extensions : BOOLEAN,          \* device_supports_extensions
            formats : BOOLEAN,             \* !swapchain.formats.is_empty()
            present_modes : BOOLEAN,       \* !swapchain.present_modes.is_empty()
            geometry_shader : BOOLEAN,     \* features.geometry_shader
            discrete : BOOLEAN,            \* device_type == DISCRETE_GPU
            max_image_dimension2_d : {4096, 8192}] :
        Cardinality({f \in {"queue_family", "extensions", "formats", "present_modes"} :
                        ~d[f]}) <= 1}

\* Devices::device_suitability_score (devices.rs:79-95)
device_suitability_score(d) ==
    IF ~d.queue_family THEN 0
    ELSE IF ~d.extensions THEN 0
    ELSE IF ~d.formats \/ ~d.present_modes THEN 0
    ELSE (IF ~d.geometry_shader THEN 2000 ELSE 0)
         + (IF d.discrete THEN 1000 ELSE 0)
         + d.max_image_dimension2_d

\* BTreeMap::insert: the value under an equal key is replaced
insert(map, key, value) ==
    [k \in DOMAIN map \cup {key} |-> IF k = key THEN value ELSE map[k]]

\* BTreeMap::first_key_value: the entry with the smallest key
first_key(map) == CHOOSE k \in DOMAIN map : \A j \in DOMAIN map : k <= j

NoCandidates == [k \in {} |-> 0]

NotSelected == [status |-> "none", device |-> 0]

\* one integrated GPU that has everything, selected
InitHardware ==
    /\ enumerated = <<[queue_family |-> TRUE, extensions |-> TRUE, formats |-> TRUE,
                       present_modes |-> TRUE, geometry_shader |-> TRUE,
                       discrete |-> FALSE, max_image_dimension2_d |-> 4096]>>
    /\ scored = 1
    /\ candidates = insert(NoCandidates, device_suitability_score(enumerated[1]), 1)
    /\ physical = [status |-> "Ok", device |-> 1]

Init ==
    /\ InitFrame
    /\ InitApp
    /\ InitHardware
    /\ InitSwapchain

\* Devices::new about to select, for any list of devices
InitEnumerate ==
    /\ InitFrame
    /\ InitApp
    /\ InitSwapchain
    /\ enumerated \in UNION {[1 .. n -> PhysicalDevices] : n \in 0 .. MaxDevices}
    /\ scored = 0
    /\ candidates = NoCandidates
    /\ physical = NotSelected

\* select_physical_device, one round of the loop (devices.rs:39-46): the
\* surface queries of SwapchainSupport::new may fail, which returns the error
ScoreDevice ==
    /\ physical.status = "none"
    /\ scored < Len(enumerated)
    /\ \E r \in CallResults :
          IF r = "success"
          THEN /\ candidates' = insert(candidates,
                                      device_suitability_score(enumerated[scored + 1]),
                                      scored + 1)
               /\ scored' = scored + 1
               /\ UNCHANGED physical
          ELSE /\ physical' = [status |-> "Err", device |-> 0]
               /\ UNCHANGED <<candidates, scored>>
    /\ UNCHANGED <<sync_vars, num_images, run, device_vars, local_vars, obs_vars,
                   app_vars, swap_vars, enumerated>>

\* select_physical_device after the loop (devices.rs:48-56)
select_physical_device ==
    /\ physical.status = "none"
    /\ scored = Len(enumerated)
    /\ physical' =
          IF DOMAIN candidates # {}
          THEN LET score == first_key(candidates)
               IN  IF score > 0
                   THEN [status |-> "Ok", device |-> candidates[score]]
                   ELSE [status |-> "NoSuitableDevice", device |-> 0]
          ELSE [status |-> "NoSuitableDevice", device |-> 0]
    /\ UNCHANGED <<sync_vars, num_images, run, device_vars, local_vars, obs_vars,
                   app_vars, swap_vars, enumerated, scored, candidates>>

NextDevices ==
    \/ ScoreDevice
    \/ select_physical_device

SpecDevices == InitEnumerate /\ [][NextDevices]_vars

\* Vulcor::new about to create the swapchain, for any surface and window
InitCreate ==
    /\ InitFrame
    /\ InitApp
    /\ InitHardware
    /\ capabilities \in SurfaceCapabilities
    /\ InitDevice
    /\ inner_size \in WindowSizes
    /\ create_info = NoCreateInfo

\* Vulcor::new about to create the swapchain, for any selected device: one
\* that lists a format (devices.rs:84) and has both queue families
InitSelect ==
    /\ InitFrame
    /\ InitApp
    /\ InitHardware
    /\ capabilities = FixedExtentCapabilities
    /\ formats \in ListsUpTo(SurfaceFormats, MaxListLen) \ {<<>>}
    /\ present_modes \in ListsUpTo(PresentModes, MaxListLen)
    /\ queue_family \in [graphics : 0 .. 1, presentation : 0 .. 1]
    /\ inner_size = Extent2D(800, 600)
    /\ create_info = NoCreateInfo

create_swapchain ==
    /\ create_info.status = "none"
    /\ \E r \in CallResults :
          create_info' = create_swapchain_result(capabilities, formats, present_modes,
                                                queue_family, inner_size, r)
    /\ UNCHANGED <<sync_vars, num_images, run, device_vars, local_vars, obs_vars,
                   app_vars, hw_vars, capabilities, formats, present_modes,
                   queue_family, inner_size>>

SpecCreate == InitCreate /\ [][create_swapchain]_vars

SpecSelect == InitSelect /\ [][create_swapchain]_vars

----------------------------------------------------------------------------
\* Vulcor::render, one action per Vulkan call

\* wait_for_fences(&[f], true, u64::MAX) returning Ok: blocks until f is signaled
WaitForFencesNoBlock(f) == TRUE
WaitForFences(f) == fence_signaled[f]

\* main.rs:408: the fence the table records for the acquired image
ImageOwnerFenceOfSlot(index) == get_in_flight_fence
ImageOwnerFence(index) == images_in_flight[index]

\* main.rs:409: the step-3 wait is performed unless the entry is null
NeedsImageWaitNever(f) == FALSE
NeedsImageWait(f) == f # NullFence

\* render() is entered (from about_to_wait or RedrawRequested)
EnterRender ==
    /\ pc = "idle"
    /\ calls + closes < MaxFrames
    /\ pc' = "wait_frame"
    /\ calls' = calls + 1
    /\ entry_frame' = frame
    /\ acquire_result' = "none"
    /\ waited_fence' = NullFence
    /\ submit_result' = "none"
    /\ present_result' = "none"
    /\ result' = "none"
    /\ fence_error' = "none"
    /\ UNCHANGED <<sync_vars, num_images, run, ext_vars, device_vars, image_index, in_flight,
                   faults, completed, waited_since, fresh>>

\* App::about_to_wait: renders while run is set; the result is dropped
AboutToWait ==
    /\ run
    /\ EnterRender

\* App::window_event, RedrawRequested: renders; an error is only logged
RedrawRequested ==
    /\ EnterRender

\* a Vulkan call reports r; the calls that fail are counted
Fails(r) == r \in {"out_of_date", "error"}

Report(r) ==
    /\ Fails(r) => faults < MaxFaults
    /\ faults' = IF Fails(r) THEN faults + 1 ELSE faults

\* render() returns Err through a `?`
ReturnErr(call) ==
    /\ pc' = "idle"
    /\ result' = "err"
    /\ fence_error' = call

\* main.rs:397, step 1: wait on the current slot's fence
RenderWaitFrameFenceOk ==
    /\ pc = "wait_frame"
    /\ WaitForFences(get_in_flight_fence)
    /\ pc' = "acquire"
    /\ waited_since' = [waited_since EXCEPT ![frame] = TRUE]
    /\ UNCHANGED <<sync_vars, num_images, run, ext_vars, device_vars, image_index, in_flight,
                   calls, faults, completed, entry_frame, acquire_result, waited_fence,
                   fence_error, fresh, submit_result, present_result, result>>

RenderWaitFrameFenceErr ==
    /\ pc = "wait_frame"
    /\ Report("error")
    /\ ReturnErr("wait_frame")
    /\ UNCHANGED <<sync_vars, num_images, run, ext_vars, device_vars, image_index, in_flight,
                   calls, completed, entry_frame, acquire_result, waited_fence,
                   waited_since, fresh, submit_result, present_result>>

\* main.rs:398-405: of Ok((index, suboptimal)) render() keeps the index alone (.0)
AcquireOutcome(r) == IF r = "suboptimal" THEN "success" ELSE r

\* main.rs:398-408, step 2: acquire; any Err becomes image 0 (unwrap_or((0, false)))
RenderAcquire ==
    /\ pc = "acquire"
    /\ \E r \in SwapchainResults, i \in Images :
        /\ Report(r)
        /\ acquire_result' = AcquireOutcome(r)
        /\ IF r \in {"success", "suboptimal"}
              THEN /\ image_index' = i
                   /\ image_available' = [image_available EXCEPT ![frame] = TRUE]
              ELSE /\ image_index' = 0
                   /\ UNCHANGED image_available
    /\ in_flight' = ImageOwnerFence(image_index')
    /\ pc' = "wait_image"
    /\ UNCHANGED <<sync_vars, num_images, run, ext_vars, fence_signaled, render_completed,
                   gpu_queue, present_queue, last_presented, calls, completed,
                   entry_frame, waited_fence, waited_since, fence_error, fresh,
                   submit_result, present_result, result>>

\* main.rs:409-411, step 3: wait on the table's fence for the image, if any
RenderWaitImageFenceOk ==
    /\ pc = "wait_image"
    /\ IF NeedsImageWait(in_flight)
          THEN /\ WaitForFences(in_flight)
               /\ waited_fence' = in_flight
          ELSE /\ waited_fence' = NullFence
    /\ pc' = "update"
    /\ UNCHANGED <<sync_vars, num_images, run, ext_vars, device_vars, image_index, in_flight,
                   calls, faults, completed, entry_frame, acquire_result, waited_since,
                   fence_error, fresh, submit_result, present_result, result>>

RenderWaitImageFenceErr ==
    /\ pc = "wait_image"
    /\ NeedsImageWait(in_flight)
    /\ Report("error")
    /\ ReturnErr("wait_image")
    /\ UNCHANGED <<sync_vars, num_images, run, ext_vars, device_vars, image_index, in_flight,
                   calls, completed, entry_frame, acquire_result, waited_fence,
                   waited_since, fresh, submit_result, present_result>>

\* main.rs:412, step 4: record the slot's fence as the image's owner
RenderUpdateImageInFlight ==
    /\ pc = "update"
    /\ images_in_flight' = update_image_in_flight(image_index)
    /\ pc' = "reset"
    /\ UNCHANGED <<frame, num_images, run, ext_vars, device_vars, image_index, in_flight,
                   obs_vars>>

\* main.rs:414-424, step 5: reset the slot's fence
RenderResetFences ==
    /\ pc = "reset"
    /\ \E r \in CallResults :
        /\ Report(r)
        /\ IF r = "success"
              THEN /\ fence_signaled' = [fence_signaled EXCEPT ![get_in_flight_fence] = FALSE]
                   /\ fresh' = fresh \ {get_in_flight_fence}
                   /\ pc' = "submit"
                   /\ UNCHANGED <<result, fence_error>>
              ELSE /\ UNCHANGED <<fence_signaled, fresh>>
                   /\ ReturnErr("reset")
    /\ UNCHANGED <<sync_vars, num_images, run, ext_vars, image_available, render_completed,
                   gpu_queue, present_queue, last_presented, image_index, in_flight,
                   calls, completed, entry_frame, acquire_result, waited_fence,
                   waited_since, submit_result, present_result>>

\* main.rs:425-426: whatever queue_submit returns (let _ =), render() goes on
AfterSubmitPropagate(r) == IF r = "success" THEN "present" ELSE "idle"
AfterSubmit(r) == "present"

\* main.rs:414-425, step 6: submit; the result is dropped (let _ =)
Submission == [id |-> calls, image |-> image_index, slot |-> frame, phase |-> "queued"]

RenderSubmit ==
    /\ pc = "submit"
    /\ \E r \in CallResults :
        /\ Report(r)
        /\ submit_result' = r
        /\ IF r = "success"
              THEN /\ gpu_queue' = gpu_queue \cup {Submission}
                   /\ waited_since' = [waited_since EXCEPT ![frame] = FALSE]
              ELSE UNCHANGED <<gpu_queue, waited_since>>
        /\ pc' = AfterSubmit(r)
    /\ UNCHANGED <<sync_vars, num_images, run, ext_vars, fence_signaled, image_available,
                   render_completed, present_queue, last_presented, image_index,
                   in_flight, calls, completed, entry_frame, acquire_result,
                   waited_fence, fence_error, fresh, present_result, result>>

\* main.rs:426-434, steps 7 and 8: present, then advance the cursor and return Ok;
\* any Err of queue_present returns through the `?` before increment_frame
PresentRequest ==
    [id |-> calls, image |-> image_index, slot |-> frame,
     rendered |-> submit_result = "success"]

RenderPresent ==
    /\ pc = "present"
    /\ \E r \in SwapchainResults :
        /\ Report(r)
        /\ present_result' = r
        \* a request rejected with OUT_OF_DATE is still enqueued (its wait executes)
        /\ IF r = "error"
              THEN UNCHANGED present_queue
              ELSE present_queue' = present_queue \cup {PresentRequest}
        /\ IF r \in {"success", "suboptimal"}
              THEN /\ frame' = increment_frame(frame)
                   /\ completed' = completed + 1
                   /\ result' = "ok"
              ELSE /\ UNCHANGED <<frame, completed>>
                   /\ result' = "err"
    /\ pc' = "idle"
    /\ UNCHANGED <<images_in_flight, num_images, run, ext_vars, fence_signaled, image_available,
                   render_completed, gpu_queue, last_presented, image_index, in_flight,
                   calls, entry_frame, acquire_result, waited_fence, waited_since,
                   fence_error, fresh, submit_result>>

----------------------------------------------------------------------------
\* The device: graphics queue and presentation engine

\* a queued submission starts once its wait semaphore is signaled, consuming it
GpuBegin ==
    \E s \in gpu_queue :
        /\ s.phase = "queued"
        /\ image_available[s.slot]
        /\ image_available' = [image_available EXCEPT ![s.slot] = FALSE]
        /\ gpu_queue' = (gpu_queue \ {s}) \cup {[s EXCEPT !.phase = "executing"]}
        /\ UNCHANGED <<sync_vars, num_images, run, ext_vars, fence_signaled, render_completed,
                       present_queue, last_presented, local_vars, obs_vars>> 

\* a running submission completes: signals its semaphore and its fence
GpuComplete ==
    \E s \in gpu_queue :
        /\ s.phase = "executing"
        /\ gpu_queue' = gpu_queue \ {s}
        /\ render_completed' = [render_completed EXCEPT ![s.slot] = TRUE]
        /\ fence_signaled' = [fence_signaled EXCEPT ![s.slot] = TRUE]
        /\ UNCHANGED <<sync_vars, num_images, run, ext_vars, image_available, present_queue,
                       last_presented, local_vars, obs_vars>> 

\* a present request executes once its wait semaphore is signaled, consuming it
PresentExecute ==
    \E p \in present_queue :
        /\ render_completed[p.slot]
        /\ render_completed' = [render_completed EXCEPT ![p.slot] = FALSE]
        /\ present_queue' = present_queue \ {p}
        /\ last_presented' =
              [rendered |-> p.rendered,
               render_done |-> p.rendered /\ ~(\E s \in gpu_queue : s.id = p.id)]
        /\ UNCHANGED <<sync_vars, num_images, run, ext_vars, fence_signaled, image_available,
                       gpu_queue, local_vars, obs_vars>> 

----------------------------------------------------------------------------
\* The window and teardown

\* App::window_event, any other event (Resized among them): `_ => ()`; the
\* window is minimized or restored and nothing is done about it
Resized ==
    /\ pc = "idle"
    /\ minimized' = ~minimized
    /\ UNCHANGED <<sync_vars, num_images, run, device_vars, local_vars, obs_vars,
                   closes, destroyed, swap_vars, hw_vars>>

\* App::window_event, CloseRequested (main.rs:491-495): clears run and enters
\* cleanup, which starts with device_wait_idle
CloseRequested ==
    /\ pc = "idle"
    /\ calls + closes < MaxFrames
    /\ closes' = closes + 1
    /\ run' = FALSE
    /\ pc' = "wait_idle"
    /\ UNCHANGED <<sync_vars, num_images, device_vars, image_index, in_flight,
                   obs_vars, minimized, destroyed, swap_vars, hw_vars>>

\* RenderSync::cleanup: the semaphores, the slots' fences, then every entry of
\* images_in_flight
sync_cleanup ==
    <<"image_available", "render_completed", "in_flight", "images_in_flight">>

Destroy(o) == <<o>>

\* the handles RenderSync::cleanup passes to destroy_fence (synchronous.rs:59-64):
\* the slots' fences, then every entry of images_in_flight
fences_destroyed ==
    [i \in 1 .. MAX_FRAMES_IN_FLIGHT |-> i - 1]
    \o [i \in 1 .. num_images |-> images_in_flight[i - 1]]

\* Vulcor::cleanup after sync.cleanup (main.rs:442-456)
cleanup_rest_device_first ==
    Destroy("command_pool") \o Destroy("framebuffers") \o Destroy("pipeline")
    \o Destroy("pipeline_layout") \o Destroy("render_pass") \o Destroy("image_views")
    \o Destroy("device") \o Destroy("swapchain") \o Destroy("surface")
    \o Destroy("messenger") \o Destroy("instance")
cleanup_rest ==
    Destroy("command_pool") \o Destroy("framebuffers") \o Destroy("pipeline")
    \o Destroy("pipeline_layout") \o Destroy("render_pass") \o Destroy("image_views")
    \o Destroy("swapchain") \o Destroy("device") \o Destroy("surface")
    \o Destroy("messenger") \o Destroy("instance")

\* Vulcor::cleanup (main.rs:437-458): device_wait_idle, whose result is dropped,
\* then the destroy calls; the handler ends with event_loop.exit()
Cleanup ==
    /\ pc = "wait_idle"
    /\ \E r \in CallResults :
        /\ Report(r)
        /\ r = "success" => gpu_queue = {}
    /\ destroyed' = destroyed \o Destroy("device_wait_idle") \o sync_cleanup \o cleanup_rest
    /\ pc' = "idle"
    /\ UNCHANGED <<sync_vars, num_images, run, device_vars, image_index, in_flight,
                   calls, completed, entry_frame, acquire_result, waited_fence,
                   waited_since, fence_error, fresh, submit_result, present_result,
                   result, minimized, closes, swap_vars, hw_vars>>

----------------------------------------------------------------------------
Next ==
    \/ AboutToWait
    \/ RedrawRequested
    \/ RenderWaitFrameFenceOk
    \/ RenderWaitFrameFenceErr
    \/ RenderAcquire
    \/ RenderWaitImageFenceOk
    \/ RenderWaitImageFenceErr
    \/ RenderUpdateImageInFlight
    \/ RenderResetFences
    \/ RenderSubmit
    \/ RenderPresent
    \/ GpuBegin
    \/ GpuComplete
    \/ PresentExecute

\* the frame loop with the window being minimized and restored
NextWindow ==
    \/ Next
    \/ Resized

\* the frame loop with the window being closed
NextClose ==
    \/ Next
    \/ CloseRequested
    \/ Cleanup

SpecWindow == Init /\ [][NextWindow]_vars

SpecClose == Init /\ [][NextClose]_vars

Spec == Init /\ [][Next]_vars

\* The GPU makes progress and a wait on a signaled fence returns; nothing
\* obliges a Vulkan call to fail.
FairSpec ==
    /\ Spec
    /\ WF_vars(GpuBegin)
    /\ WF_vars(GpuComplete)
    /\ WF_vars(PresentExecute)
    /\ WF_vars(RenderWaitFrameFenceOk)
    /\ WF_vars(RenderWaitImageFenceOk)

TypeOK ==
    /\ frame \in Nat
    /\ num_images \in 1 .. MaxImages
    /\ pc \in {"idle", "wait_frame", "acquire", "wait_image", "update", "reset", "submit", "present",
              "wait_idle"}
    /\ minimized \in BOOLEAN
    /\ closes \in 0 .. MaxFrames
    /\ image_index \in Images
    /\ in_flight \in Slots \cup {NullFence}
    /\ result \in {"none", "ok", "err"}

----------------------------------------------------------------------------
\* Submissions not yet complete, by image and by slot
OutstandingOnImage(i) == {s \in gpu_queue : s.image = i}
OutstandingOnSlot(k) == {s \in gpu_queue : s.slot = k}

\* C1: the command buffer of image i is never submitted while the fence that
\* images_in_flight recorded for i before this frame is unsignaled (at the reset
\* that precedes the submission that fence is signaled, and at the submission it
\* is signaled unless it is the slot's own fence, just reset for this very
\* submission), and no image ever has two submissions outstanding.
C1_ImageFenceSignaledAtSubmit ==
    /\ pc = "update" => (in_flight = NullFence \/ fence_signaled[in_flight])
    /\ pc = "submit" =>
          (in_flight = NullFence \/ in_flight = frame \/ fence_signaled[in_flight])
    /\ \A i \in Images : Cardinality(OutstandingOnImage(i)) <= 1

\* C1 witness: an image owned by the other slot's fence has been submitted again
C1_Witness ==
    /\ pc = "present"
    /\ submit_result = "success"
    /\ in_flight # NullFence
    /\ in_flight # frame

\* C2: the in-flight cursor is always in [0, MAX_FRAMES_IN_FLIGHT)
C2_CursorInRange == frame \in 0 .. (MAX_FRAMES_IN_FLIGHT - 1)

\* C2 witness: the cursor has wrapped around and advanced again
C2_Witness == completed = 3 /\ frame = 1 /\ pc = "idle"

\* C3: when acquisition reports "out of date", the frame issues neither a queue
\* submission nor a present call, and the cursor is the one the frame started
\* with.
C3_AcquireOutOfDateAborts ==
    acquire_result = "out_of_date" =>
        /\ submit_result = "none"
        /\ present_result = "none"
        /\ frame = entry_frame

\* C4: the fence waited on in step 3 is the one images_in_flight records for
\* the acquired image, whichever slot it belongs to, and once the wait is over
\* that fence is signaled.
C4_WaitsOnTableFence ==
    pc = "update" =>
        /\ waited_fence = images_in_flight[image_index]
        /\ waited_fence # NullFence => fence_signaled[waited_fence]

\* C4 witness: three images; frame 1 used image 0 in slot 0, frame 2 (slot 1)
\* acquired image 0 again and has waited on slot 0's fence
C4_Witness ==
    /\ num_images = 3
    /\ calls = 2
    /\ frame = 1
    /\ acquire_result = "success"
    /\ image_index = 0
    /\ pc = "update"
    /\ waited_fence = 0

\* C5: a submission into a slot is made only after the slot's frame fence was
\* waited on since the slot's previous submission; no slot has two submissions
\* outstanding, and the command buffer being submitted has none outstanding.
C5_SlotFenceWaitedBeforeReuse ==
    /\ pc = "submit" =>
          /\ waited_since[frame]
          /\ OutstandingOnSlot(frame) = {}
          /\ OutstandingOnImage(image_index) = {}
    /\ \A k \in Slots : Cardinality(OutstandingOnSlot(k)) <= 1

\* C5 witness: with every call succeeding, slot 0 has been submitted into a
\* second time (third frame)
C5_Witness ==
    /\ calls = 3
    /\ faults = 0
    /\ frame = 0
    /\ pc = "present"
    /\ submit_result = "success"

\* C6: the cursor is (number of frames completed, i.e. render() calls that
\* returned Ok) mod MAX_FRAMES_IN_FLIGHT; it changes only in the step that
\* completes a frame, by (cursor + 1) mod MAX_FRAMES_IN_FLIGHT, and every
\* completed frame changes it so.
C6_CursorAdvancesOncePerFrame ==
    /\ [](frame = completed % MAX_FRAMES_IN_FLIGHT)
    /\ [][/\ frame' # frame => (pc = "present" /\ pc' = "idle" /\ result' = "ok")
          /\ completed' # completed =>
                /\ completed' = completed + 1
                /\ frame' = (frame + 1) % MAX_FRAMES_IN_FLIGHT]_vars

\* C6 witness: three frames, one of which failed: the cursor is back at 0
C6_Witness ==
    /\ calls = 3
    /\ completed = 2
    /\ faults > 0
    /\ frame = 0
    /\ pc = "idle"

\* C7: within every frame the order is acquire -> render -> present on the
\* slot's semaphores: a present is issued only after a submission of the same
\* frame, for the same image and slot, that signals the semaphore the present
\* waits on; and no image is presented before the submission that rendered
\* into it has completed.
C7_PresentAfterRender ==
    /\ \A p \in present_queue : p.rendered
    /\ \A p \in present_queue : \A s \in gpu_queue :
          s.id = p.id => (s.slot = p.slot /\ s.image = p.image)
    /\ last_presented.render_done

\* C8: every fence wait of render() eventually returns
C8_FenceWaitsReturn ==
    /\ (pc = "wait_frame") ~> (pc # "wait_frame")
    /\ (pc = "wait_image") ~> (pc # "wait_image")

\* C9: a present that reports out-of-date or suboptimal is not surfaced as an
\* error by render()
C9_PresentOutOfDateNotAnError ==
    present_result \in {"out_of_date", "suboptimal"} => result # "err"

\* C10: the cursor is advanced by every frame whose outcome is not fatal,
\* the frame whose present reports out-of-date or suboptimal included
C10_CursorAdvancedOnNonFatal ==
    (pc = "idle" /\ present_result \in {"success", "suboptimal", "out_of_date"}) =>
        frame = (entry_frame + 1) % MAX_FRAMES_IN_FLIGHT

\* A call of the current frame reported an error other than out-of-date
FatalSeen ==
    \/ acquire_result = "error"
    \/ submit_result = "error"
    \/ present_result = "error"
    \/ fence_error # "none"

\* C11: an error of acquire, submit, present or a fence call other than
\* out-of-date is returned by render() as an error, and once a frame has seen
\* one no further frame is started.
C11_FatalErrorEndsLoop ==
    /\ []((pc = "idle" /\ FatalSeen) => result = "err")
    /\ [][(pc = "idle" /\ FatalSeen) => pc' # "wait_frame"]_vars

\* C12: in a frame in which acquisition, submission, a fence call or the
\* present fails with a fatal error, the cursor is not advanced.
C12_NoAdvanceOnFatal == FatalSeen => frame = entry_frame

\* C13 as stated: a frame whose acquisition succeeded issues both the
\* submission and the present.
C13_NoMidFrameAbort ==
    (pc = "idle" /\ acquire_result = "success") =>
        (submit_result # "none" /\ present_result # "none")

\* C13 amended: a frame whose acquisition succeeded issues both queue_submit
\* and queue_present, the present for the acquired image, unless the step-3
\* fence wait or reset_fences returned Err; it then returns Err having issued
\* neither.
C13_AbortOnlyOnFenceError ==
    (pc = "idle" /\ acquire_result = "success") =>
        IF fence_error = "none"
           THEN /\ submit_result # "none"
                /\ present_result # "none"
                /\ \A p \in present_queue : p.id = calls => p.image = image_index
           ELSE /\ fence_error \in {"wait_image", "reset"}
                /\ submit_result = "none"
                /\ present_result = "none"
                /\ result = "err"

\* C13 witness: acquisition succeeded, queue_submit failed, and the frame still
\* presented the acquired image
C13_Witness ==
    /\ pc = "idle"
    /\ acquire_result = "success"
    /\ submit_result = "error"
    /\ present_result = "success"
    /\ \E p \in present_queue : p.id = calls /\ p.image = image_index

\* C14: the slot's fence is reset only after the step-1 wait of the frame
\* succeeded, and a fence that is unsignaled is about to get, or has, a
\* pending submission that signals it.
C14_ResetFollowedBySubmission ==
    /\ pc = "submit" => waited_since[frame]
    /\ \A s \in Slots :
          ~fence_signaled[s] => ((pc = "submit" /\ frame = s) \/ OutstandingOnSlot(s) # {})

\* C15: a fence that has not been reset since its creation is signaled, with
\* no submission made in its slot, so the step-1 wait of the slot's first
\* frame returns at once.
C15_FencesCreatedSignaled ==
    \A s \in fresh :
        /\ fence_signaled[s]
        /\ OutstandingOnSlot(s) = {}
        /\ (pc = "wait_frame" /\ frame = s) => WaitForFences(get_in_flight_fence)

\* C15 witness: slot 1's first frame is past its step-1 wait
C15_Witness ==
    /\ frame = 1
    /\ 1 \in fresh
    /\ pc = "acquire"

\* C16: while the window is minimized, render() performs no acquisition, no
\* submission and no present
C16_NoFrameWhileMinimized ==
    (minimized /\ pc \notin {"idle", "wait_idle"}) =>
        (acquire_result = "none" /\ submit_result = "none" /\ present_result = "none")

\* the order C17 lists, as a rank per destroy call ("framebuffers/views" and
\* "pipeline" are one entry each)
ListedRank(o) ==
    CASE o = "device_wait_idle" -> 0
      [] o \in {"image_available", "render_completed", "in_flight", "images_in_flight"} -> 1
      [] o = "command_pool" -> 2
      [] o \in {"framebuffers", "image_views"} -> 3
      [] o \in {"pipeline", "pipeline_layout"} -> 4
      [] o = "render_pass" -> 5
      [] o = "swapchain" -> 6
      [] o = "device" -> 7
      [] o = "messenger" -> 8
      [] o = "surface" -> 9
      [] o = "instance" -> 10

TeardownOrder ==
    <<"device_wait_idle", "image_available", "render_completed", "in_flight",
      "images_in_flight", "command_pool", "framebuffers", "pipeline", "pipeline_layout",
      "render_pass", "image_views", "swapchain", "device", "surface", "messenger",
      "instance">>

Requested == create_info.status \in {"created", "error"}

\* C18: with max_image_count > 0 the requested image count is
\* min(min_image_count + 1, max_image_count) and never exceeds max_image_count
C18_ImageCountClamped ==
    (Requested /\ capabilities.max_image_count > 0) =>
        /\ create_info.image_count =
               Min(capabilities.min_image_count + 1, capabilities.max_image_count)
        /\ create_info.image_count <= capabilities.max_image_count

\* C19: with max_image_count = 0 the requested image count is
\* min_image_count + 1, unclamped
C19_ImageCountUnbounded ==
    (Requested /\ capabilities.max_image_count = 0) =>
        create_info.image_count = capabilities.min_image_count + 1

C19_Witness ==
    /\ create_info.status = "created"
    /\ capabilities.min_image_count = 2
    /\ capabilities.max_image_count = 0
    /\ create_info.image_count = 3

\* the window's size brought into [min_image_extent, max_image_extent]
ClampedIntoRange(x, lo, hi) == Max(lo, Min(x, hi))

\* C20: a sentinel current_extent selects the window's size clamped
\* component-wise into [min_image_extent, max_image_extent]; any other
\* current_extent is selected verbatim
C20_ExtentSelection ==
    create_info.status # "none" =>
        /\ Requested
        /\ create_info.extent =
             IF capabilities.current_extent.width = U32Max
             THEN Extent2D(ClampedIntoRange(inner_size.width,
                                            capabilities.min_image_extent.width,
                                            capabilities.max_image_extent.width),
                           ClampedIntoRange(inner_size.height,
                                            capabilities.min_image_extent.height,
                                            capabilities.max_image_extent.height))
             ELSE capabilities.current_extent

Preferred == SurfaceFormat("B8G8R8A8_SRGB", "SRGB_NONLINEAR")

\* C21: the selected format is the B8G8R8A8_SRGB / SRGB_NONLINEAR entry when the
\* list has one, at whatever position, and the first listed format otherwise
C21_FormatSelection ==
    Requested =>
        create_info.format =
            IF \E i \in DOMAIN formats : formats[i] = Preferred
            THEN Preferred
            ELSE formats[1]

C21_Witness ==
    /\ create_info.status = "created"
    /\ Len(formats) = 2
    /\ formats[1] = SurfaceFormat("R8G8B8A8_UNORM", "SRGB_NONLINEAR")
    /\ formats[2] = Preferred
    /\ create_info.format = Preferred

\* C22: the selected present mode is MAILBOX exactly when the list has it and
\* FIFO otherwise, the empty list included; selection never fails
C22_PresentModeSelection ==
    Requested =>
        /\ create_info.present_mode = "MAILBOX" <=>
               \E i \in DOMAIN present_modes : present_modes[i] = "MAILBOX"
        /\ create_info.present_mode \in {"MAILBOX", "FIFO"}

C22_Witness ==
    /\ create_info.status = "created"
    /\ present_modes = <<"IMMEDIATE", "MAILBOX">>
    /\ create_info.present_mode = "MAILBOX"

\* C23: different graphics and presentation families give concurrent sharing
\* with the index list [graphics, presentation]; equal families give
\* exclusive sharing with an empty index list
C23_SharingMode ==
    Requested =>
        IF queue_family.graphics # queue_family.presentation
        THEN /\ create_info.image_sharing_mode = "CONCURRENT"
             /\ create_info.queue_family_indices =
                    <<queue_family.graphics, queue_family.presentation>>
        ELSE /\ create_info.image_sharing_mode = "EXCLUSIVE"
             /\ create_info.queue_family_indices = <<>>

C23_Witness ==
    /\ create_info.status = "created"
    /\ queue_family.graphics = 0
    /\ queue_family.presentation = 1
    /\ create_info.image_sharing_mode = "CONCURRENT"
    /\ create_info.queue_family_indices = <<0, 1>>

\* C24: a rebuild, also the second of two in a row, leaves every entry of
\* images_in_flight "none" and the cursor where it was; the frame whose
\* acquisition reports out-of-date is where the rebuild is due
C24_RebuildResetsTable ==
    (pc = "idle" /\ acquire_result = "out_of_date") =>
        /\ \A i \in Images : images_in_flight[i] = NullFence
        /\ DOMAIN images_in_flight = Images
        /\ frame = entry_frame

\* C25: update_image_in_flight sets the acquired image's entry to the cursor
\* slot's fence and changes no other entry, nor the cursor, a semaphore or a
\* fence; render() calls it only after its wait on the entry's previous fence,
\* and nothing else writes the table
C25_RecordImageOwner ==
    /\ [][(pc = "update" /\ pc' # pc) =>
            /\ images_in_flight' = [images_in_flight EXCEPT ![image_index] = frame]
            /\ UNCHANGED <<frame, fence_signaled, image_available, render_completed>>
            /\ in_flight = images_in_flight[image_index]
            /\ in_flight # NullFence =>
                   (waited_fence = in_flight /\ fence_signaled[in_flight])]_vars
    /\ [][images_in_flight' # images_in_flight => pc = "update"]_vars

C25_Witness ==
    /\ pc = "reset"
    /\ waited_fence \notin {NullFence, frame}
    /\ images_in_flight[image_index] = frame
    /\ \E j \in Images \ {image_index} : images_in_flight[j] # NullFence

Scores == {device_suitability_score(enumerated[i]) : i \in DOMAIN enumerated}

\* d has every feature that e has
AtLeast(d, e) ==
    /\ \A f \in {"queue_family", "extensions", "formats", "present_modes",
                  "geometry_shader", "discrete"} : e[f] => d[f]
    /\ d.max_image_dimension2_d >= e.max_image_dimension2_d

\* C26: the score a device gets is 0 when it has no geometry shaders, and a
\* device with more features never scores less
C26_ScoreZeroWithoutGeometryShader ==
    \A k \in DOMAIN candidates :
        /\ ~enumerated[candidates[k]].geometry_shader => k = 0
        /\ \A j \in DOMAIN candidates :
              AtLeast(enumerated[candidates[k]], enumerated[candidates[j]]) => k >= j

\* C27: select_physical_device returns NoSuitableDevice exactly when no device
\* scores above 0, and otherwise a device whose score is the highest of all
C27_SelectsBestDevice ==
    physical.status \in {"Ok", "NoSuitableDevice"} =>
        /\ physical.status = "NoSuitableDevice" <=> \A x \in Scores : x <= 0
        /\ physical.status = "Ok" =>
              \A x \in Scores :
                  device_suitability_score(enumerated[physical.device]) >= x

\* C28: a teardown destroys no fence twice and no null handle, whatever the
\* table holds
C28_FencesDestroyedOnce ==
    [][(pc = "wait_idle" /\ pc' = "idle") =>
          /\ \A i, j \in DOMAIN fences_destroyed :
                fences_destroyed[i] = fences_destroyed[j] => i = j
          /\ \A i \in DOMAIN fences_destroyed : fences_destroyed[i] # NullFence]_vars

\* C29: once teardown has run, no render() is started and no second teardown
C29_NothingAfterTeardown ==
    destroyed # <<>> => (pc = "idle" /\ Len(destroyed) = Len(TeardownOrder))

\* C30: a semaphore gets no new signal while an earlier one is unconsumed, and
\* nothing waits on a semaphore that has no signal queued
C30_SemaphoresPaired ==
    /\ [](\A s \in gpu_queue : s.phase = "queued" => image_available[s.slot])
    /\ [](\A p \in present_queue :
            render_completed[p.slot] \/ OutstandingOnSlot(p.slot) # {})
    /\ [][(pc = "acquire" /\ acquire_result' = "success") => ~image_available[frame]]_vars
    /\ [][\A k \in Slots :
            (~render_completed[k] /\ render_completed'[k]) \/ ~render_completed'[k]
            \/ UNCHANGED render_completed]_vars
=============================================================================
